---- MODULE Spec2Model ----
(***************************************************************************)
(* Model of src/src/types.ts of the StarkNet Hardhat plugin: the ABI index  *)
(* (readAbi), the contract factory (deploy, getContractAt), the contract   *)
(* handle (invoke, call) and the transaction-status poller (checkStatus,   *)
(* iterativelyCheckStatus); and of the encoder and decoder of arguments    *)
(* (adaptInput, adaptOutput) as spec 4.2 and 4.3 describe them.            *)
(*                                                                         *)
(* Every async function is cut at its awaits: the code between two awaits  *)
(* runs to completion on the single JavaScript thread and is one action.   *)
(***************************************************************************)
EXTENDS Integers, Sequences, FiniteSets, Bags, TLC

\* ------------------------------------------------------------------ bounds
\* The history counters of status queries stop counting after MaxPolls.
MaxPolls == 2

\* The operations (deploy / invoke / call) a run starts: two, so that two
\* waits can be outstanding together.
Ops == {1, 2}

\* ------------------------------------------------------- JavaScript values
\* undefined / null / a missing field.
Undefined == <<"undefined">>
\* The empty string.
EmptyString == <<>>
\* `if (x)` on a string-or-undefined value.
Truthy(x) == x # Undefined /\ x # EmptyString

\* A JavaScript argument value as the code probes it: Array.isArray, the own
\* keys (an array's keys are its indices "0", "1", ...), and the falsy
\* undefined.
NoArgs == [tag |-> "undefined", keys |-> {}]
EmptyObject == [tag |-> "object", keys |-> {}]
ObjectOf(ks) == [tag |-> "object", keys |-> ks]
ArrayOfOne == [tag |-> "array", keys |-> {"0"}]
IsArray(v) == v.tag = "array"
Present(v) == v.tag # "undefined"
ObjectKeysLength(v) == Cardinality(v.keys)

\* ------------------------------------------------------------------ TxStatus
TxStatus == {"PENDING", "NOT_RECEIVED", "RECEIVED", "REJECTED", "ACCEPTED_ONCHAIN"}
PendingBlock == <<"pending">>
SettledBlock == <<"0x1">>
BlockHashes == {Undefined, EmptyString, PendingBlock, SettledBlock}
StatusObject == [block_hash : BlockHashes, tx_status : TxStatus]
NoStatus == [block_hash |-> Undefined, tx_status |-> "none"]

ACCEPTABLE_STATUSES == {"PENDING", "ACCEPTED_ONCHAIN"}

isTxAcceptedIgnoringSentinel(statusObject) ==
    /\ statusObject.tx_status \in ACCEPTABLE_STATUSES
    /\ Truthy(statusObject.block_hash)

isTxAccepted(statusObject) ==
    /\ statusObject.tx_status \in ACCEPTABLE_STATUSES
    /\ Truthy(statusObject.block_hash)
    /\ statusObject.block_hash # PendingBlock

UNACCEPTABLE_STATUSES == {"REJECTED"}

isTxRejectedNever(statusObject) == FALSE

isTxRejected(statusObject) == statusObject.tx_status \in UNACCEPTABLE_STATUSES

\* ----------------------------------------------------------------------- ABI
\* An ABI entry of the ABI file. An entry without a name has name "".
Felt(n) == [name |-> n, type |-> <<"felt">>]
FunctionEntry(n, ins, outs) ==
    [name |-> n, type |-> "function", inputs |-> ins, outputs |-> outs]
ConstructorEntry(ins) ==
    [name |-> "constructor", type |-> "constructor", inputs |-> ins, outputs |-> <<>>]
\* What a lookup yields when there is no such property.
NoEntry == [name |-> "", type |-> "undefined", inputs |-> <<>>, outputs |-> <<>>]
\* A member every JavaScript object inherits from Object.prototype: it is
\* truthy and has no `inputs` and no `outputs`.
UndefinedInputs == <<[name |-> "", type |-> "undefined"]>>
PrototypeMember(n) ==
    [name |-> n, type |-> "native", inputs |-> UndefinedInputs, outputs |-> UndefinedInputs]
ObjectPrototypeNames == {"toString"}

IncreaseBalance == FunctionEntry("increase_balance", <<Felt("amount")>>, <<>>)
GetBalance == FunctionEntry("get_balance", <<>>, <<Felt("res")>>)
\* The ABI files a factory is constructed from.
AbiNoConstructor == <<IncreaseBalance, GetBalance>>
AbiConstructor == <<ConstructorEntry(<<Felt("initial_balance")>>), IncreaseBalance, GetBalance>>
AbiEmptyConstructor == <<ConstructorEntry(<<>>), IncreaseBalance, GetBalance>>
\* ... and one with an entry that has no name.
AbiNameless ==
    <<IncreaseBalance, FunctionEntry("", <<>>, <<>>), ConstructorEntry(<<>>), GetBalance>>
AbiFiles == {AbiNoConstructor, AbiConstructor, AbiEmptyConstructor, AbiNameless}

MaxOf(S) == CHOOSE x \in S : \A y \in S : y <= x
MinOf(S) == CHOOSE x \in S : \A y \in S : x <= y

\* readAbi: the entries by name, a later entry replacing an earlier one of
\* the same name; it throws at an entry without a name.
EntriesByName(abiArray) ==
    [n \in {abiArray[i].name : i \in 1..Len(abiArray)} |->
        abiArray[MaxOf({i \in 1..Len(abiArray) : abiArray[i].name = n})]]
Read(abi) == [error |-> "none", abi |-> abi]
MalformedAbi == [error |-> "MalformedAbi", abi |-> <<>>]

readAbiUnchecked(abiArray) == Read(EntriesByName(abiArray))

readAbi(abiArray) ==
    IF \E i \in 1..Len(abiArray) : abiArray[i].name = ""
    THEN MalformedAbi
    ELSE Read(EntriesByName(abiArray))

\* The constructor of StarknetContractFactory looks for the constructor
\* entry: the last own key, in insertion order, of type "constructor".
findConstructor(abiArray) ==
    LET abi == readAbi(abiArray).abi
        first(n) == MinOf({i \in 1..Len(abiArray) : abiArray[i].name = n})
        ctors == {n \in DOMAIN abi : abi[n].type = "constructor"}
    IN  IF ctors = {} THEN NoEntry
        ELSE abi[CHOOSE n \in ctors : \A m \in ctors : first(m) <= first(n)]

\* abi[functionName]: an own property, else an inherited one, else undefined.
lookup(abi, functionName) ==
    IF functionName \in DOMAIN abi THEN abi[functionName]
    ELSE IF functionName \in ObjectPrototypeNames THEN PrototypeMember(functionName)
    ELSE NoEntry

\* `if (!func)`, `if (this.constructorAbi)`.
Defined(entry) == entry.type # "undefined"

\* adaptInput (src/adapt): the flat inputs of a function whose parameters are
\* felts, in the declared order; fails when a declared parameter has no field
\* of its name in the input, and when there is no parameter list at all.
adaptInput(functionName, input, inputSpecs, abi) ==
    IF inputSpecs = UndefinedInputs
    THEN [ok |-> FALSE, adapted |-> <<>>]
    ELSE IF \E i \in 1..Len(inputSpecs) : inputSpecs[i].name \notin input.keys
    THEN [ok |-> FALSE, adapted |-> <<>>]
    ELSE [ok |-> TRUE, adapted |-> [i \in 1..Len(inputSpecs) |-> inputSpecs[i].name]]

\* ------------------------------------------------------- encoder and decoder
\* The longest array a structured value holds.
MaxLen == 2
\* The scalars a structured value holds: zero, one digit and two digits.
FeltValues == {0, 7, 10}

\* An AbiType: a scalar, an array of a type, or a struct of the ABI by name.
FeltType == <<"felt">>
ArrayOf(T) == <<"array", T>>
StructOf(n) == <<"struct", n>>
Member(n, T) == [name |-> n, type |-> T]
\* The struct entries of the ABI the encoder resolves names against.
StructEntry(n, ms) == [name |-> n, type |-> "struct", members |-> ms]
CodecAbi ==
    [Point |-> StructEntry("Point", <<Member("x", FeltType), Member("y", FeltType)>>),
     Path |-> StructEntry("Path", <<Member("start", StructOf("Point")),
                                    Member("steps", ArrayOf(FeltType))>>)]

\* The native representation of a scalar: its decimal digits.
RECURSIVE ToDigits(_)
ToDigits(n) == IF n < 10 THEN <<n>> ELSE Append(ToDigits(n \div 10), n % 10)
RECURSIVE FromDigits(_)
FromDigits(d) ==
    IF d = <<>> THEN 0 ELSE FromDigits(SubSeq(d, 1, Len(d) - 1)) * 10 + d[Len(d)]

\* encode: the pre-order, length-prefixed walk of a value of a type, and of
\* the values of a list of members in their declared order.
RECURSIVE encodeValue(_, _, _), encodeMembers(_, _, _), encodeElements(_, _, _)
encodeValueWithoutLength(v, T, abi) ==
    IF T[1] = "felt" THEN <<ToDigits(v)>>
    ELSE IF T[1] = "array" THEN encodeElements(v, T[2], abi)
    ELSE encodeMembers(v, abi[T[2]].members, abi)

encodeValue(v, T, abi) ==
    IF T[1] = "felt" THEN <<ToDigits(v)>>
    ELSE IF T[1] = "array" THEN <<ToDigits(Len(v))>> \o encodeElements(v, T[2], abi)
    ELSE encodeMembers(v, abi[T[2]].members, abi)
encodeElements(vs, T, abi) ==
    IF vs = <<>> THEN <<>>
    ELSE encodeValue(Head(vs), T, abi) \o encodeElements(Tail(vs), T, abi)
encodeMembers(v, members, abi) ==
    IF members = <<>> THEN <<>>
    ELSE encodeValue(v[Head(members).name], Head(members).type, abi)
             \o encodeMembers(v, Tail(members), abi)

\* decode: the inverse walk. The result is the value and the rest of the flat
\* sequence, or a failure when the sequence is exhausted.
Truncated == [ok |-> FALSE, value |-> <<>>, rest |-> <<>>]
Consumed(v, rest) == [ok |-> TRUE, value |-> v, rest |-> rest]
RECURSIVE decodeValue(_, _, _), decodeMembers(_, _, _), decodeElements(_, _, _, _)
decodeValue(flat, T, abi) ==
    IF T[1] = "felt"
    THEN IF flat = <<>> THEN Truncated ELSE Consumed(FromDigits(Head(flat)), Tail(flat))
    ELSE IF T[1] = "array"
    THEN IF flat = <<>> THEN Truncated
         ELSE decodeElements(Tail(flat), FromDigits(Head(flat)), T[2], abi)
    ELSE decodeMembers(flat, abi[T[2]].members, abi)
decodeElements(flat, n, T, abi) ==
    IF n = 0 THEN Consumed(<<>>, flat)
    ELSE LET first == decodeValue(flat, T, abi)
         IN  IF ~first.ok THEN Truncated
             ELSE LET others == decodeElements(first.rest, n - 1, T, abi)
                  IN  IF ~others.ok THEN Truncated
                      ELSE Consumed(<<first.value>> \o others.value, others.rest)
decodeMembers(flat, members, abi) ==
    IF members = <<>> THEN Consumed(<<>>, flat)
    ELSE LET first == decodeValue(flat, Head(members).type, abi)
         IN  IF ~first.ok THEN Truncated
             ELSE LET others == decodeMembers(first.rest, Tail(members), abi)
                  IN  IF ~others.ok THEN Truncated
                      ELSE Consumed((Head(members).name :> first.value) @@ others.value,
                                    others.rest)

\* encode and decode of the arguments of a function: a mapping of the
\* declared names to values.
encode(functionName, structuredArgs, formalParams, abi) ==
    encodeMembers(structuredArgs, formalParams, abi)
decode(flatValues, formalOutputs, abi) == decodeMembers(flatValues, formalOutputs, abi)

\* adaptOutput (src/adapt): the decoder on the flat values a call printed;
\* fails when the function has no list of outputs at all.
adaptOutput(rawResult, outputSpecs, abi) ==
    IF outputSpecs = UndefinedInputs THEN Truncated ELSE decode(rawResult, outputSpecs, abi)

\* The structured values that conform to a type, and to a list of members.
RECURSIVE ValuesOf(_, _), MappingsOf(_, _)
ValuesOf(T, abi) ==
    IF T[1] = "felt" THEN FeltValues
    ELSE IF T[1] = "array" THEN UNION {[1..n -> ValuesOf(T[2], abi)] : n \in 0..MaxLen}
    ELSE MappingsOf(abi[T[2]].members, abi)
MappingsOf(members, abi) ==
    IF members = <<>> THEN {<<>>}
    ELSE {(Head(members).name :> v) @@ m :
            v \in ValuesOf(Head(members).type, abi), m \in MappingsOf(Tail(members), abi)}

\* The parameter lists the encoder and the decoder are run on.
ParameterLists ==
    { <<>>,
      <<Member("amount", FeltType)>>,
      <<Member("x", FeltType), Member("y", FeltType)>>,
      <<Member("n", FeltType), Member("arr", ArrayOf(FeltType))>>,
      <<Member("point", StructOf("Point"))>>,
      <<Member("points", ArrayOf(StructOf("Point")))>>,
      <<Member("path", StructOf("Path")), Member("tag", FeltType)>>,
      <<Member("rows", ArrayOf(ArrayOf(FeltType)))>> }

\* -------------------------------------------------------------- validation
\* StarknetContractFactory.handleConstructorArguments: the error it throws,
\* or "ok".
handleConstructorArguments(constructorAbi, constructorArguments, abi) ==
    IF Defined(constructorAbi)
    THEN IF ~Present(constructorArguments) \/ ObjectKeysLength(constructorArguments) = 0
         THEN "MissingConstructorArguments"
         ELSE IF ~adaptInput(constructorAbi.name, constructorArguments,
                             constructorAbi.inputs, abi).ok
         THEN "ArgumentShapeError"
         ELSE "ok"
    ELSE IF Present(constructorArguments) /\ ObjectKeysLength(constructorArguments) # 0
    THEN "UnexpectedConstructorArguments"
    ELSE "ok"

\* StarknetContract.invokeOrCall up to its runCommand: the error it throws,
\* or "ok".
invokeOrCallFunctionFirst(address, abi, functionName, args) ==
    IF ~Defined(lookup(abi, functionName)) THEN "UnknownFunction"
    ELSE IF ~Truthy(address) THEN "ContractNotDeployed"
    ELSE IF IsArray(args) THEN "PositionalArgumentsRejected"
    ELSE IF /\ Present(args)
            /\ ObjectKeysLength(args) # 0
            /\ ~adaptInput(functionName, args, lookup(abi, functionName).inputs, abi).ok
    THEN "ArgumentShapeError"
    ELSE "ok"

invokeOrCallValidate(address, abi, functionName, args) ==
    IF ~Truthy(address) THEN "ContractNotDeployed"
    ELSE IF ~Defined(lookup(abi, functionName)) THEN "UnknownFunction"
    ELSE IF IsArray(args) THEN "PositionalArgumentsRejected"
    ELSE IF /\ Present(args)
            /\ ObjectKeysLength(args) # 0
            /\ ~adaptInput(functionName, args, lookup(abi, functionName).inputs, abi).ok
    THEN "ArgumentShapeError"
    ELSE "ok"

\* ------------------------------------------------------ submission results
\* The text a submission prints, line by line: a line is the fixed text it
\* starts with and the rest of the line.
TxHashPrefix == "Transaction hash: "
AddressPrefix == "Contract address: "
Line(p, r) == [prefix |-> p, rest |-> r]
OtherLine == Line("Sent.", EmptyString)
\* The hash and the address the network gives the transaction of operation o.
TxHashOf(o) == <<"0x", o>>
AddressOf(o) == <<"0xaddr", o>>
TxHashes == {TxHashOf(o) : o \in Ops}

Throw == <<"throw">>
\* extractFromResponse with /^<prefix>(.*)$/m: the first line that matches,
\* and its capture; throws without a match or with an empty capture.
extractFromResponse(response, prefix) ==
    LET matching == {i \in 1..Len(response) : response[i].prefix = prefix}
    IN  IF matching = {} THEN Throw
        ELSE IF ~Truthy(response[MinOf(matching)].rest) THEN Throw
        ELSE response[MinOf(matching)].rest

extractTxHash(response) == extractFromResponse(response, TxHashPrefix)
extractAddressFromHashLine(response) == extractFromResponse(response, TxHashPrefix)

extractAddress(response) == extractFromResponse(response, AddressPrefix)

\* What the network may print for a deploy, and for an invoke.
DeployOutputs(o) ==
    { <<Line(AddressPrefix, AddressOf(o)), Line(TxHashPrefix, TxHashOf(o))>>,
      <<Line(AddressPrefix, AddressOf(o))>>,
      <<Line(TxHashPrefix, TxHashOf(o))>>,
      <<Line(AddressPrefix, EmptyString), Line(TxHashPrefix, TxHashOf(o))>>,
      <<Line(TxHashPrefix, TxHashOf(o)), OtherLine, Line(AddressPrefix, AddressOf(o)),
        Line(AddressPrefix, <<"0xaddr", 0>>)>> }
InvokeOutputs(o) ==
    { <<OtherLine, Line(TxHashPrefix, TxHashOf(o))>>,
      <<OtherLine>>,
      <<Line(TxHashPrefix, EmptyString)>> }

\* No command has returned yet, and what runCommand returns.
NoOutput == <<>>
NotExecuted == [returned |-> FALSE, statusCode |-> 0, stdout |-> NoOutput]
Executed(statusCode, stdout) == [returned |-> TRUE, statusCode |-> statusCode, stdout |-> stdout]
\* What the deploy and the invoke command return: any of the outputs with
\* exit status zero, and a non-zero exit status, here with the output of a
\* submission that went through.
DeployResults(o) ==
    {Executed(0, stdout) : stdout \in DeployOutputs(o)}
        \cup {Executed(1, <<Line(AddressPrefix, AddressOf(o)), Line(TxHashPrefix, TxHashOf(o))>>)}
\* What a call prints: the flat values of its outputs; here one value, or
\* nothing.
CallOutputs(o) == {<<ToDigits(10)>>, NoOutput}
InvokeResults(o) ==
    {Executed(0, stdout) : stdout \in InvokeOutputs(o)}
        \cup {Executed(1, <<OtherLine, Line(TxHashPrefix, TxHashOf(o))>>)}

\* ------------------------------------------------------------------- state
\* The endpoints of the configuration the factory and its handles carry.
GatewayUrl == "http://gateway"
FeederGatewayUrl == "http://feeder"
\* The delay of a re-poll (constants.CHECK_STATUS_TIMEOUT).
CHECK_STATUS_TIMEOUT == "CHECK_STATUS_TIMEOUT"

VARIABLES
    factory,      \* the StarknetContractFactory: the ABI file at abiPath, abi, constructorAbi;
                  \* or the error its constructor threw
    pc,           \* per operation: "idle", "submitting", "polling", "done"
    kind,         \* per operation: "none", "deploy", "getContractAt", "invoke", "call"
    input,        \* per operation: the arguments of the call while they are live
    outcome,      \* per operation: the promise's state: "pending", "fulfilled" or the error
    value,        \* per operation: what the promise is fulfilled with
    submitted,    \* per operation: deploy / invoke / call commands run
    submission,   \* per operation: the `executed` its deploy / invoke / call command returned
    contract,     \* per deploy and getContractAt: the StarknetContract it constructed
    state,        \* per operation: the state of its poller
    statusObject, \* per operation: the status its poller classified last
    polls,        \* per operation: tx_status commands run, counted up to MaxPolls + 1
    repolls,      \* per operation: re-polls scheduled, counted up to MaxPolls
    queries,      \* bag of the arguments of the iterativelyCheckStatus calls awaiting checkStatus
    timers,       \* bag of the pending setTimeout(iterativelyCheckStatus, ...) timers
    final,        \* per transaction hash: the network reports only terminal statuses from now on
    codec         \* the encoder and decoder run on their own: the arguments and the results

program == <<factory, pc, kind, input, outcome, value, submitted, submission, contract, state,
             statusObject, polls, repolls, queries, timers, final>>
vars == <<program, codec>>

\* The encoder has not been given anything.
NoCodec == [phase |-> "none", formalParams |-> <<>>, structuredArgs |-> <<>>,
            flat |-> <<>>, decoded |-> Truncated]

NoInput == [live |-> FALSE, address |-> Undefined, functionName |-> "", args |-> NoArgs]
\* What a promise is fulfilled with: nothing yet, undefined, a
\* StarknetContract, or the decoded output of a call.
NoValue == [is |-> "nothing", address |-> Undefined]
Void == [is |-> "undefined", address |-> Undefined]
DecodedNotReturned(adaptedOutput) == [is |-> "undefined", address |-> Undefined]

Decoded(adaptedOutput) ==
    [is |-> "StringMap", address |-> Undefined, adaptedOutput |-> adaptedOutput]
StarknetContractWithoutAddress(a) == [is |-> "StarknetContract", address |-> Undefined]

StarknetContract(a) == [is |-> "StarknetContract", address |-> a]
NoContract == NoValue

Init ==
    /\ \E abiArray \in AbiFiles :
          factory = IF readAbi(abiArray).error # "none"
                    THEN [error |-> readAbi(abiArray).error, abiPath |-> abiArray,
                          abi |-> <<>>, constructorAbi |-> NoEntry]
                    ELSE [error |-> "none", abiPath |-> abiArray,
                          abi |-> readAbi(abiArray).abi,
                          constructorAbi |-> findConstructor(abiArray)]
    /\ pc = [o \in Ops |-> "idle"]
    /\ kind = [o \in Ops |-> "none"]
    /\ input = [o \in Ops |-> NoInput]
    /\ outcome = [o \in Ops |-> "pending"]
    /\ value = [o \in Ops |-> NoValue]
    /\ submitted = [o \in Ops |-> 0]
    /\ submission = [o \in Ops |-> NotExecuted]
    /\ contract = [o \in Ops |-> NoContract]
    /\ state = [o \in Ops |-> "None"]
    /\ statusObject = [o \in Ops |-> NoStatus]
    /\ polls = [o \in Ops |-> 0]
    /\ repolls = [o \in Ops |-> 0]
    /\ queries = EmptyBag
    /\ timers = EmptyBag
    /\ final = [h \in TxHashes |-> FALSE]
    /\ codec = NoCodec

\* ------------------------------------------------------------------ inputs
FunctionNames == {"increase_balance", "get_balance", "no_such_function", "toString"}
ArgValues == {NoArgs, EmptyObject, ObjectOf({"amount"}), ArrayOfOne}
ConstructorArgValues == {NoArgs, EmptyObject, ObjectOf({"initial_balance"}), ArrayOfOne}
\* The address of a contract that is on the network already.
KnownAddress == <<"0xaddr", 0>>
\* The addresses of the handles a caller can hold: a handle constructed
\* without an address, a handle for a known address, and the handles the
\* fulfilled deploys and the calls of getContractAt returned.
HandleAddresses ==
    {Undefined, KnownAddress}
        \cup {value[p].address :
                 p \in {q \in Ops : /\ kind[q] \in {"deploy", "getContractAt"}
                                    /\ outcome[q] = "fulfilled"}}
\* The addresses a caller gives getContractAt.
SuppliedAddress == <<"0xaddr", 3>>
SuppliedAddresses == {Undefined, EmptyString, SuppliedAddress}

\* A counter that stops counting at cap.
Counted(n, cap) == IF n < cap THEN n + 1 ELSE n

\* A promise settles once: resolve and reject of a settled promise do nothing.
Settle(current, settled) == IF current = "pending" THEN settled ELSE current

\* ------------------------------------------------------------------ poller
\* The arguments deploy and invoke call iterativelyCheckStatus with; the
\* callbacks are those of the promise of operation o.
pollArguments(o, hash) ==
    [txHash |-> hash, gatewayUrl |-> GatewayUrl, feederGatewayUrl |-> FeederGatewayUrl,
     callbacks |-> o]

\* A terminal status of the network (glossary): after it the status of the
\* transaction does not change.
NetworkTerminal(so) ==
    \/ so.tx_status = "ACCEPTED_ONCHAIN" /\ so.block_hash = SettledBlock
    \/ so.tx_status = "REJECTED"

\* What the tx_status command returns for a hash: a non-zero exit, text that
\* is no JSON, or a status of the network, a terminal one once the
\* transaction is final.
NoJson == [parsable |-> FALSE, json |-> NoStatus]
StatusResults(hash) ==
    { [statusCode |-> 1, stdout |-> NoJson],
      [statusCode |-> 0, stdout |-> NoJson] }
    \cup { [statusCode |-> 0, stdout |-> [parsable |-> TRUE, json |-> so]] :
             so \in {s \in StatusObject : final[hash] => NetworkTerminal(s)} }

\* checkStatus after its await: the parsed status, or a throw.
Thrown == [block_hash |-> Undefined, tx_status |-> "throw"]
checkStatus(executed) ==
    IF executed.statusCode # 0 THEN Thrown
    ELSE IF ~executed.stdout.parsable THEN Thrown
    ELSE executed.stdout.json

\* The branch iterativelyCheckStatus takes on a status.
classifyRejectedAsPending(so) ==
    IF isTxAccepted(so) THEN "resolve" ELSE "setTimeout"

classify(so) ==
    IF isTxAccepted(so) THEN "resolve"
    ELSE IF isTxRejected(so) THEN "reject"
    ELSE "setTimeout"

\* setTimeout(iterativelyCheckStatus, timeout, ...arguments): the timers the
\* else branch adds.
setTimeoutTwice(arguments) ==
    SetToBag({[delay |-> CHECK_STATUS_TIMEOUT, arguments |-> arguments]})
        (+) SetToBag({[delay |-> CHECK_STATUS_TIMEOUT, arguments |-> arguments]})

setTimeoutNone(arguments) == EmptyBag

setTimeoutNoDelay(arguments) ==
    SetToBag({[delay |-> "0", arguments |-> arguments]})

setTimeoutFirstHash(arguments) ==
    SetToBag({[delay |-> CHECK_STATUS_TIMEOUT,
               arguments |-> [arguments EXCEPT !.txHash = TxHashOf(1)]]})

setTimeoutCalls(arguments) ==
    SetToBag({[delay |-> CHECK_STATUS_TIMEOUT, arguments |-> arguments]})

\* iterativelyCheckStatus up to the await in checkStatus: the tx_status
\* command is run for the hash of the arguments.
StartCycle(arguments) ==
    /\ queries' = queries (+) SetToBag({arguments})
    /\ polls' = [polls EXCEPT ![arguments.callbacks] = Counted(@, MaxPolls + 1)]
    /\ state' = [state EXCEPT ![arguments.callbacks] = "Querying"]
    /\ statusObject' = [statusObject EXCEPT ![arguments.callbacks] = NoStatus]

\* resolve of the promise of operation o: deploy resolves with the contract.
ResolvedWithoutContract(o) == Void

Resolved(o) == IF kind[o] = "deploy" THEN contract[o] ELSE Void

\* iterativelyCheckStatus from the return of the tx_status command on: the
\* rest of checkStatus and the classification.
StatusReturns(arguments, executed) ==
    LET o == arguments.callbacks
        so == checkStatus(executed)
    IN
    /\ BagIn(arguments, queries)
    /\ executed \in StatusResults(arguments.txHash)
    /\ queries' = queries (-) SetToBag({arguments})
    /\ IF so = Thrown
       THEN \* the promise of the async call is rejected and nobody holds it
            /\ state' = [state EXCEPT ![o] = "ParseError"]
            /\ UNCHANGED <<pc, outcome, value, statusObject, repolls, timers>>
       ELSE /\ statusObject' = [statusObject EXCEPT ![o] = so]
            /\ IF classify(so) = "resolve"
               THEN /\ outcome' = [outcome EXCEPT ![o] = Settle(@, "fulfilled")]
                    /\ value' = [value EXCEPT ![o] = IF outcome[o] = "pending" THEN Resolved(o) ELSE @]
                    /\ state' = [state EXCEPT ![o] = "Accepted"]
                    /\ pc' = [pc EXCEPT ![o] = "done"]
                    /\ UNCHANGED <<repolls, timers>>
               ELSE IF classify(so) = "reject"
               THEN /\ outcome' = [outcome EXCEPT ![o] = Settle(@, "TransactionRejected")]
                    /\ state' = [state EXCEPT ![o] = "Rejected"]
                    /\ pc' = [pc EXCEPT ![o] = "done"]
                    /\ UNCHANGED <<value, repolls, timers>>
               ELSE /\ timers' = timers (+) setTimeoutCalls(arguments)
                    /\ repolls' = [repolls EXCEPT ![o] = Counted(@, MaxPolls)]
                    /\ state' = [state EXCEPT ![o] = "Pending"]
                    /\ UNCHANGED <<pc, outcome, value>>
    /\ UNCHANGED <<codec, factory, kind, input, submitted, submission, contract, polls, final>>

\* A timer fires: iterativelyCheckStatus is called with the timer's arguments.
TimerFires(timer) ==
    /\ BagIn(timer, timers)
    /\ timers' = timers (-) SetToBag({timer})
    /\ StartCycle(timer.arguments)
    /\ UNCHANGED <<codec, factory, pc, kind, input, outcome, value, submitted, submission, contract,
                   repolls, final>>

\* The network makes a transaction somebody is asking about final.
NetworkFinalises(hash) ==
    /\ \E q \in BagToSet(queries) : q.txHash = hash
    /\ ~final[hash]
    /\ final' = [final EXCEPT ![hash] = TRUE]
    /\ UNCHANGED <<codec, factory, pc, kind, input, outcome, value, submitted, submission, contract,
                   state, statusObject, polls, repolls, queries, timers>>

\* --------------------------------------------------------------- operations
\* An async function that throws before its first await: the promise it
\* returns is rejected with the error.
Fails(o, k, in, error) ==
    /\ pc' = [pc EXCEPT ![o] = "done"]
    /\ kind' = [kind EXCEPT ![o] = k]
    /\ input' = [input EXCEPT ![o] = in]
    /\ outcome' = [outcome EXCEPT ![o] = error]
    /\ UNCHANGED submitted

\* ... and one that reaches its runCommand.
Submits(o, k, in) ==
    /\ pc' = [pc EXCEPT ![o] = "submitting"]
    /\ kind' = [kind EXCEPT ![o] = k]
    /\ input' = [input EXCEPT ![o] = in]
    /\ submitted' = [submitted EXCEPT ![o] = @ + 1]
    /\ UNCHANGED outcome

\* StarknetContractFactory.deploy up to its await.
Deploy(o, constructorArguments, signed) ==
    LET in == [live |-> TRUE, address |-> Undefined, functionName |-> "",
               args |-> constructorArguments]
        error == handleConstructorArguments(factory.constructorAbi, constructorArguments,
                                            factory.abi)
    IN
    /\ factory.error = "none"
    /\ pc[o] = "idle"
    /\ IF error # "ok" THEN Fails(o, "deploy", in, error) ELSE Submits(o, "deploy", in)
    /\ UNCHANGED <<codec, factory, value, submission, contract, state, statusObject, polls, repolls,
                   queries, timers, final>>

\* StarknetContractFactory.getContractAt: the error it throws, or "ok".
getContractAtUndefinedOnly(address) == IF address = Undefined THEN "EmptyAddress" ELSE "ok"

getContractAt(address) == IF ~Truthy(address) THEN "EmptyAddress" ELSE "ok"

\* A call of getContractAt: it throws, or it returns a new StarknetContract
\* with the address.
GetContractAt(o, address) ==
    /\ factory.error = "none"
    /\ pc[o] = "idle"
    /\ pc' = [pc EXCEPT ![o] = "done"]
    /\ kind' = [kind EXCEPT ![o] = "getContractAt"]
    /\ input' = [input EXCEPT ![o] = [live |-> TRUE, address |-> address,
                                      functionName |-> "", args |-> NoArgs]]
    /\ IF getContractAt(address) # "ok"
       THEN /\ outcome' = [outcome EXCEPT ![o] = getContractAt(address)]
            /\ UNCHANGED <<value, contract>>
       ELSE /\ outcome' = [outcome EXCEPT ![o] = "fulfilled"]
            /\ contract' = [contract EXCEPT ![o] = StarknetContract(address)]
            /\ value' = [value EXCEPT ![o] = StarknetContract(address)]
    /\ UNCHANGED <<codec, factory, submitted, submission, state, statusObject, polls, repolls,
                   queries, timers, final>>

\* StarknetContract.invokeOrCall up to its await, on a handle with this
\* address, called by invoke or by call.
invokeOrCall(o, k, address, functionName, args, signed) ==
    LET in == [live |-> TRUE, address |-> address, functionName |-> functionName,
               args |-> args]
        error == invokeOrCallValidate(address, factory.abi, functionName, args)
    IN
    /\ factory.error = "none"
    /\ pc[o] = "idle"
    /\ address \in HandleAddresses
    /\ IF error # "ok" THEN Fails(o, k, in, error) ELSE Submits(o, k, in)
    /\ UNCHANGED <<codec, factory, value, submission, contract, state, statusObject, polls, repolls,
                   queries, timers, final>>

Invoke(o, address, functionName, args, signed) ==
    invokeOrCall(o, "invoke", address, functionName, args, signed)

Call(o, address, functionName, args, signed) ==
    invokeOrCall(o, "call", address, functionName, args, signed)

\* The operation ends with an error after its submission returned.
EndsToStartAgain(o, error) ==
    /\ pc' = [pc EXCEPT ![o] = "idle"]
    /\ outcome' = outcome
    /\ input' = [input EXCEPT ![o] = NoInput]

Ends(o, error) ==
    /\ pc' = [pc EXCEPT ![o] = "done"]
    /\ outcome' = [outcome EXCEPT ![o] = error]
    /\ input' = [input EXCEPT ![o] = NoInput]

\* deploy from the return of its command on: the exit status, the two
\* extractions, the new StarknetContract and the first poll cycle.
DeployReturns(o, statusCode, stdout) ==
    /\ pc[o] = "submitting" /\ kind[o] = "deploy"
    /\ Executed(statusCode, stdout) \in DeployResults(o)
    /\ submission' = [submission EXCEPT ![o] = Executed(statusCode, stdout)]
    /\ IF statusCode # 0
       THEN /\ Ends(o, "DeploymentRejected")
            /\ UNCHANGED <<contract, state, statusObject, polls, queries>>
       ELSE IF extractAddress(stdout) = Throw \/ extractTxHash(stdout) = Throw
       THEN /\ Ends(o, "UnparsableSubmissionResult")
            /\ UNCHANGED <<contract, state, statusObject, polls, queries>>
       ELSE /\ contract' = [contract EXCEPT ![o] = StarknetContract(extractAddress(stdout))]
            /\ pc' = [pc EXCEPT ![o] = "polling"]
            /\ input' = [input EXCEPT ![o] = NoInput]
            /\ StartCycle(pollArguments(o, extractTxHash(stdout)))
            /\ UNCHANGED outcome
    /\ UNCHANGED <<codec, factory, kind, value, submitted, repolls, timers, final>>

\* invoke from the return of invokeOrCall's command on.
InvokeReturns(o, statusCode, stdout) ==
    /\ pc[o] = "submitting" /\ kind[o] = "invoke"
    /\ Executed(statusCode, stdout) \in InvokeResults(o)
    /\ submission' = [submission EXCEPT ![o] = Executed(statusCode, stdout)]
    /\ IF statusCode # 0
       THEN /\ Ends(o, "InvocationFailed")
            /\ UNCHANGED <<state, statusObject, polls, queries>>
       ELSE IF extractTxHash(stdout) = Throw
       THEN /\ Ends(o, "UnparsableSubmissionResult")
            /\ UNCHANGED <<state, statusObject, polls, queries>>
       ELSE /\ pc' = [pc EXCEPT ![o] = "polling"]
            /\ input' = [input EXCEPT ![o] = NoInput]
            /\ StartCycle(pollArguments(o, extractTxHash(stdout)))
            /\ UNCHANGED outcome
    /\ UNCHANGED <<codec, factory, kind, value, submitted, contract, repolls, timers, final>>

\* call from the return of invokeOrCall's command on: the exit status, then
\* adaptOutput on what the command printed.
CallReturns(o, statusCode, stdout) ==
    LET func == lookup(factory.abi, input[o].functionName)
        adaptedOutput == adaptOutput(stdout, func.outputs, factory.abi)
    IN
    /\ pc[o] = "submitting" /\ kind[o] = "call"
    /\ stdout \in CallOutputs(o)
    /\ submission' = [submission EXCEPT ![o] = Executed(statusCode, stdout)]
    /\ pc' = [pc EXCEPT ![o] = "done"]
    /\ IF statusCode # 0
       THEN /\ outcome' = [outcome EXCEPT ![o] = "InvocationFailed"]
            /\ UNCHANGED value
       ELSE IF ~adaptedOutput.ok
       THEN /\ outcome' = [outcome EXCEPT ![o] = "TruncatedOutput"]
            /\ UNCHANGED value
       ELSE /\ outcome' = [outcome EXCEPT ![o] = "fulfilled"]
            /\ value' = [value EXCEPT ![o] = Decoded(adaptedOutput.value)]
    /\ UNCHANGED <<codec, factory, kind, input, submitted, contract, state, statusObject,
                   polls, repolls, queries, timers, final>>

\* ------------------------------------------------------------ specification
Next ==
    \/ \E o \in Ops, args \in ConstructorArgValues, signed \in BOOLEAN :
          Deploy(o, args, signed)
    \/ \E o \in Ops, address \in SuppliedAddresses : GetContractAt(o, address)
    \/ \E o \in Ops, address \in HandleAddresses, f \in FunctionNames, args \in ArgValues,
          signed \in BOOLEAN : Invoke(o, address, f, args, signed)
    \/ \E o \in Ops, address \in HandleAddresses, f \in FunctionNames, args \in ArgValues,
          signed \in BOOLEAN : Call(o, address, f, args, signed)
    \/ \E o \in Ops, statusCode \in {0, 1} : \E stdout \in DeployOutputs(o) :
          DeployReturns(o, statusCode, stdout)
    \/ \E o \in Ops, statusCode \in {0, 1} : \E stdout \in InvokeOutputs(o) :
          InvokeReturns(o, statusCode, stdout)
    \/ \E o \in Ops, statusCode \in {0, 1} : \E stdout \in CallOutputs(o) :
          CallReturns(o, statusCode, stdout)
    \/ \E q \in BagToSet(queries) : \E executed \in StatusResults(q.txHash) :
          StatusReturns(q, executed)
    \/ \E t \in BagToSet(timers) : TimerFires(t)
    \/ \E hash \in TxHashes : NetworkFinalises(hash)

Spec == Init /\ [][Next]_vars

\* The event loop runs a timer that is due, and a command that was started
\* returns.
TimerFiresFor(o) == \E t \in BagToSet(timers) : t.arguments.callbacks = o /\ TimerFires(t)
StatusReturnsFor(o) ==
    \E q \in BagToSet(queries) : \E executed \in StatusResults(q.txHash) :
        q.callbacks = o /\ StatusReturns(q, executed)
\* The waits alone: the operations run on inputs that pass their validation
\* and their commands print what can be parsed, under the fairness above.
LiveNext ==
    \/ \E o \in Ops : Deploy(o, NoArgs, FALSE)
    \/ \E o \in Ops : Invoke(o, KnownAddress, "get_balance", NoArgs, FALSE)
    \/ \E o \in Ops, statusCode \in {0, 1} :
          DeployReturns(o, statusCode,
                        <<Line(AddressPrefix, AddressOf(o)), Line(TxHashPrefix, TxHashOf(o))>>)
    \/ \E o \in Ops, statusCode \in {0, 1} :
          InvokeReturns(o, statusCode, <<OtherLine, Line(TxHashPrefix, TxHashOf(o))>>)
    \/ \E q \in BagToSet(queries) : \E executed \in StatusResults(q.txHash) :
          StatusReturns(q, executed)
    \/ \E t \in BagToSet(timers) : TimerFires(t)
    \/ \E hash \in TxHashes : NetworkFinalises(hash)

LiveSpec ==
    /\ Init /\ [][LiveNext]_vars
    /\ \A o \in Ops : WF_vars(TimerFiresFor(o)) /\ WF_vars(StatusReturnsFor(o))

\* The encoder and the decoder on their own: arguments that conform to a
\* parameter list are encoded, and the flat sequence is decoded against the
\* same list.
Arguments(formalParams, structuredArgs) ==
    /\ codec.phase = "none"
    /\ codec' = [codec EXCEPT !.phase = "arguments", !.formalParams = formalParams,
                               !.structuredArgs = structuredArgs]
    /\ UNCHANGED program

Encode ==
    /\ codec.phase = "arguments"
    /\ codec' = [codec EXCEPT !.phase = "encoded",
                               !.flat = encode("f", codec.structuredArgs, codec.formalParams,
                                               CodecAbi)]
    /\ UNCHANGED program

Decode ==
    /\ codec.phase = "encoded"
    /\ codec' = [codec EXCEPT !.phase = "decoded",
                               !.decoded = decode(codec.flat, codec.formalParams, CodecAbi)]
    /\ UNCHANGED program

CodecNext ==
    \/ /\ codec.phase = "none"
       /\ \E formalParams \in ParameterLists :
             \E structuredArgs \in MappingsOf(formalParams, CodecAbi) :
                 Arguments(formalParams, structuredArgs)
    \/ Encode
    \/ Decode

CodecSpec == Init /\ [][CodecNext]_vars

\* ================================================================== claims
RECURSIVE Copies(_, _)
Copies(S, B) ==
    IF S = {} THEN 0
    ELSE LET x == CHOOSE y \in S : TRUE IN CopiesIn(x, B) + Copies(S \ {x}, B)
\* The tx_status commands in flight, and the timers pending, for the wait of o.
QueriesOf(o) == Copies({q \in BagToSet(queries) : q.callbacks = o}, queries)
TimersOf(o) == Copies({t \in BagToSet(timers) : t.arguments.callbacks = o}, timers)
\* A poll cycle of o has classified a status.
Classified(o) == statusObject[o] # NoStatus
\* The claim's accepted statuses, and its rejected ones.
AcceptedStatus(so) ==
    /\ so.tx_status \in {"PENDING", "ACCEPTED_ONCHAIN"}
    /\ so.block_hash \notin {Undefined, EmptyString}
    /\ so.block_hash # PendingBlock
RejectedStatus(so) == so.tx_status = "REJECTED"

\* C1: a poll cycle resolves the wait exactly when the status it parsed has
\* tx_status PENDING or ACCEPTED_ONCHAIN and a block_hash that is present,
\* non-empty and not "pending"; on every other status the wait is not
\* resolved.
C1_ResolvesIffAccepted ==
    \A o \in Ops :
        Classified(o) =>
            /\ (outcome[o] = "fulfilled") <=> AcceptedStatus(statusObject[o])
            /\ (state[o] = "Accepted") <=> AcceptedStatus(statusObject[o])

C1_Witness ==
    \E o, p \in Ops :
        /\ statusObject[o] = [block_hash |-> SettledBlock, tx_status |-> "PENDING"]
        /\ outcome[o] = "fulfilled"
        /\ statusObject[p] = [block_hash |-> PendingBlock, tx_status |-> "ACCEPTED_ONCHAIN"]
        /\ outcome[p] = "pending"

\* C2: a poll cycle that sees tx_status REJECTED, whatever the block_hash,
\* ends the poller in Rejected: the wait is rejected with the
\* transaction-rejected error, is not fulfilled, and nothing more is polled.
C2_RejectedRejects ==
    \A o \in Ops :
        (Classified(o) /\ RejectedStatus(statusObject[o])) =>
            /\ state[o] = "Rejected"
            /\ outcome[o] = "TransactionRejected"
            /\ value[o] = NoValue
            /\ QueriesOf(o) = 0 /\ TimersOf(o) = 0

C2_Witness ==
    \E o, p \in Ops :
        /\ statusObject[o] = [block_hash |-> SettledBlock, tx_status |-> "REJECTED"]
        /\ statusObject[p] = [block_hash |-> Undefined, tx_status |-> "REJECTED"]
        /\ outcome[o] = "TransactionRejected" /\ outcome[p] = "TransactionRejected"
        /\ kind[o] = "deploy" /\ kind[p] = "invoke"

\* C3: when a poll cycle fails (the status query exits non-zero or prints
\* what cannot be parsed), the poller is in ParseError and the wait is
\* rejected, never left unsettled.
C3_FailedCycleRejects ==
    \A o \in Ops : state[o] = "ParseError" => outcome[o] \notin {"pending", "fulfilled"}

\* C4: a poll cycle that sees a status that is neither accepted nor rejected
\* leaves the poller Pending, calls neither resolve nor reject, and
\* schedules exactly one further cycle, after the fixed delay, for the same
\* transaction hash, endpoints and callbacks.
C4_NonTerminalReschedulesOnce ==
    \A o \in Ops :
        (/\ Classified(o)
         /\ ~AcceptedStatus(statusObject[o])
         /\ ~RejectedStatus(statusObject[o])) =>
            /\ state[o] = "Pending"
            /\ outcome[o] = "pending" /\ value[o] = NoValue
            /\ QueriesOf(o) = 0
            /\ TimersOf(o) = 1
            /\ \A t \in BagToSet(timers) :
                  t.arguments.callbacks = o =>
                      t = [delay |-> CHECK_STATUS_TIMEOUT,
                           arguments |-> [txHash |-> TxHashOf(o), gatewayUrl |-> GatewayUrl,
                                          feederGatewayUrl |-> FeederGatewayUrl,
                                          callbacks |-> o]]

C4_Witness ==
    \E o \in Ops :
        /\ statusObject[o] = [block_hash |-> PendingBlock, tx_status |-> "PENDING"]
        /\ repolls[o] = 2
        /\ TimersOf(o) = 1

\* C5: the poller has no retry bound. After n statuses that are neither
\* accepted nor rejected, an accepted (rejected) status settles the wait at
\* query n + 1, for every n the counters count; with timers firing and
\* commands returning, a transaction the network has made final settles the
\* wait unless a query fails, and while no terminal status is seen the wait
\* stays unsettled and the queries go on for ever.
C5_Counts(o) ==
    /\ (state[o] \in {"Querying", "Accepted", "Rejected", "ParseError"} /\ repolls[o] < MaxPolls)
          => polls[o] = repolls[o] + 1
    /\ (state[o] = "Pending" /\ repolls[o] < MaxPolls) => polls[o] = repolls[o]
    /\ state[o] = "Accepted" => outcome[o] = "fulfilled"
    /\ state[o] = "Rejected" => outcome[o] = "TransactionRejected"
    /\ state[o] \in {"Querying", "Pending"} => outcome[o] = "pending"

C5_SettlesOnceFinal(o) ==
    (<>final[TxHashOf(o)] /\ [](state[o] # "ParseError"))
        => <>(outcome[o] \in {"fulfilled", "TransactionRejected"})

C5_PollsForEver(o) ==
    (<>(state[o] = "Querying") /\ [](state[o] \notin {"Accepted", "Rejected", "ParseError"}))
        => ([]<>(state[o] = "Querying") /\ []<>(state[o] = "Pending"))

C5_NoRetryBound ==
    \A o \in Ops : [] C5_Counts(o) /\ C5_SettlesOnceFinal(o) /\ C5_PollsForEver(o)

C5_Witness ==
    \E o, p \in Ops :
        /\ state[o] = "Accepted" /\ repolls[o] = MaxPolls - 1 /\ polls[o] = MaxPolls
        /\ state[p] = "Rejected" /\ repolls[p] = 0 /\ polls[p] = 1

\* C6: the poll cycles of one wait are sequential: at any moment a wait has
\* at most one tx_status command in flight or one re-poll timer pending, the
\* command while Querying, the timer while Pending, so that a cycle's query
\* is issued only after the cycle before it returned and was classified.
C6_Sequential ==
    \A o \in Ops :
        /\ QueriesOf(o) + TimersOf(o) <= 1
        /\ (QueriesOf(o) = 1) <=> (state[o] = "Querying")
        /\ (TimersOf(o) = 1) <=> (state[o] = "Pending")
        /\ state[o] = "Querying" => ~Classified(o)

C6_Witness ==
    \E o, p \in Ops :
        /\ state[o] = "Querying" /\ polls[o] = 2 /\ QueriesOf(o) = 1
        /\ state[p] = "Pending" /\ TimersOf(p) = 1

\* C7: outstanding waits are independent. Every tx_status command in flight
\* and every pending timer of a wait carries the hash of that wait's own
\* transaction, the endpoints of its handle and its own callbacks, and no
\* step of any interleaving changes what two operations see: a wait is
\* settled, re-polled or failed only by a step of its own poller.
OpView(o) ==
    <<pc[o], kind[o], input[o], outcome[o], value[o], submitted[o], submission[o], contract[o],
      state[o],
      statusObject[o], polls[o], repolls[o], QueriesOf(o), TimersOf(o), final[TxHashOf(o)]>>

C7_OwnArguments ==
    /\ \A q \in BagToSet(queries) :
          /\ q.callbacks \in Ops
          /\ q = [txHash |-> TxHashOf(q.callbacks), gatewayUrl |-> GatewayUrl,
                  feederGatewayUrl |-> FeederGatewayUrl, callbacks |-> q.callbacks]
    /\ \A t \in BagToSet(timers) :
          /\ t.arguments.callbacks \in Ops
          /\ t.arguments = [txHash |-> TxHashOf(t.arguments.callbacks),
                            gatewayUrl |-> GatewayUrl,
                            feederGatewayUrl |-> FeederGatewayUrl,
                            callbacks |-> t.arguments.callbacks]

C7_OneOperationPerStep ==
    \A o, p \in Ops : (o # p /\ OpView(o)' # OpView(o)) => OpView(p)' = OpView(p)

C7_Independent == [] C7_OwnArguments /\ [][C7_OneOperationPerStep]_vars

C7_Witness ==
    /\ state[1] = "Accepted" /\ kind[1] = "invoke"
    /\ state[2] = "Pending" /\ repolls[2] = 2 /\ kind[2] = "invoke"
    /\ final[TxHashOf(1)] /\ ~final[TxHashOf(2)]

\* The operation o is an invoke or a call whose arguments are on record.
InvokeOrCallOf(o) == kind[o] \in {"invoke", "call"} /\ input[o].live
\* Nothing was submitted and no poll was started for o.
NothingRun(o) ==
    /\ submitted[o] = 0 /\ polls[o] = 0 /\ state[o] = "None"
    /\ QueriesOf(o) = 0 /\ TimersOf(o) = 0
    /\ pc[o] = "done"

\* C8: invoke and call on a handle whose address is unset fail with
\* ContractNotDeployed before anything is submitted, no command run and no
\* poll started, whatever the function name and the arguments are.
C8_NotDeployedFirst ==
    \A o \in Ops :
        (InvokeOrCallOf(o) /\ input[o].address = Undefined) =>
            outcome[o] = "ContractNotDeployed" /\ NothingRun(o)

C8_Witness ==
    \E o, p \in Ops :
        /\ kind[o] = "invoke" /\ input[o].live /\ input[o].address = Undefined
        /\ input[o].functionName = "no_such_function" /\ input[o].args = ArrayOfOne
        /\ outcome[o] = "ContractNotDeployed"
        /\ kind[p] = "call" /\ input[p].live /\ input[p].address = Undefined
        /\ input[p].functionName = "increase_balance" /\ input[p].args = ObjectOf({"amount"})
        /\ outcome[p] = "ContractNotDeployed"

\* C9: on a handle with an address, invoke and call fail with UnknownFunction
\* when the function name is no entry name of the ABI index, and with
\* PositionalArgumentsRejected when the arguments are an array, in both cases
\* before anything is submitted and with no poll started.
C9_UnknownFunctionAndPositional ==
    \A o \in Ops :
        (InvokeOrCallOf(o) /\ input[o].address # Undefined) =>
            /\ input[o].functionName \notin DOMAIN factory.abi
                  => outcome[o] = "UnknownFunction" /\ NothingRun(o)
            /\ (input[o].functionName \in DOMAIN factory.abi /\ input[o].args.tag = "array")
                  => outcome[o] = "PositionalArgumentsRejected" /\ NothingRun(o)

\* C10: deploy fails with MissingConstructorArguments exactly when the
\* constructor's formal parameters are non-empty and the arguments are absent
\* or empty, and with UnexpectedConstructorArguments exactly when the
\* arguments are non-empty and the formal parameters are empty (a constructor
\* entry without inputs, or no constructor entry).
FormalParameters ==
    LET ctors == {n \in DOMAIN factory.abi : factory.abi[n].type = "constructor"}
    IN  IF ctors = {} THEN <<>> ELSE factory.abi[CHOOSE n \in ctors : TRUE].inputs

C10_ConstructorArgumentNecessity ==
    \A o \in Ops :
        (kind[o] = "deploy" /\ input[o].live) =>
            /\ outcome[o] = "MissingConstructorArguments"
                  <=> (FormalParameters # <<>> /\ input[o].args.keys = {})
            /\ outcome[o] = "UnexpectedConstructorArguments"
                  <=> (FormalParameters = <<>> /\ input[o].args.keys # {})

\* C11: invoke and call encode the arguments against the declared inputs of
\* the function before they submit: on a handle with an address, for a
\* function of the ABI index that declares an input the arguments (absent and
\* empty arguments included) have no field for, the operation fails with an
\* argument error and no command is submitted.
DeclaredInputs(functionName) == factory.abi[functionName].inputs

C11_EncodesBeforeSubmitting ==
    \A o \in Ops :
        (/\ InvokeOrCallOf(o)
         /\ input[o].address # Undefined
         /\ input[o].functionName \in DOMAIN factory.abi
         /\ \E i \in 1..Len(DeclaredInputs(input[o].functionName)) :
               DeclaredInputs(input[o].functionName)[i].name \notin input[o].args.keys)
            => /\ outcome[o] \in {"ArgumentShapeError", "PositionalArgumentsRejected"}
               /\ NothingRun(o)

\* C12: deploy resolves only in the step in which its poller classifies as
\* accepted a status queried for the transaction hash of the deploy's own
\* output, and it resolves with the StarknetContract whose address is the
\* address of that output; while no accepted status was classified the
\* deploy is unsettled, and a REJECTED status rejects it with no handle.
C12_Settled ==
    \A o \in Ops :
        kind[o] = "deploy" =>
            /\ outcome[o] = "fulfilled" =>
                  /\ state[o] = "Accepted" /\ AcceptedStatus(statusObject[o])
                  /\ value[o] = StarknetContract(AddressOf(o))
                  /\ value[o] = contract[o]
            /\ (pc[o] = "polling" /\ state[o] \in {"Querying", "Pending"}) =>
                  outcome[o] = "pending" /\ value[o] = NoValue
            /\ (Classified(o) /\ RejectedStatus(statusObject[o])) =>
                  outcome[o] = "TransactionRejected" /\ value[o] = NoValue

C12_ResolvingStep ==
    \A o \in Ops :
        (kind[o] = "deploy" /\ outcome[o] # "fulfilled" /\ outcome'[o] = "fulfilled") =>
            /\ BagIn(pollArguments(o, TxHashOf(o)), queries)
            /\ ~BagIn(pollArguments(o, TxHashOf(o)), queries')
            /\ AcceptedStatus(statusObject'[o])
            /\ contract[o] = StarknetContract(AddressOf(o))

C12_DeployResolvesAfterAccepted == [] C12_Settled /\ [][C12_ResolvingStep]_vars

C12_Witness ==
    \E o, p \in Ops :
        /\ kind[o] = "deploy" /\ outcome[o] = "fulfilled" /\ repolls[o] = 1
        /\ value[o] = StarknetContract(AddressOf(o))
        /\ kind[p] = "deploy" /\ outcome[p] = "TransactionRejected"
        /\ statusObject[p].tx_status = "REJECTED" /\ contract[p] = StarknetContract(AddressOf(p))

\* The output has a line that starts with the prefix, and one with a
\* non-empty rest.
HasLine(stdout, prefix) == \E i \in 1..Len(stdout) : stdout[i].prefix = prefix
HasCapture(stdout, prefix) ==
    \E i \in 1..Len(stdout) : stdout[i].prefix = prefix /\ Truthy(stdout[i].rest)
\* The deploy command of o has returned with exit status zero.
DeployExecuted(o) ==
    kind[o] = "deploy" /\ submission[o].returned /\ submission[o].statusCode = 0

\* C13: when the output of a deploy command that exited with status zero has
\* no "Contract address: " line or no "Transaction hash: " line, deploy fails
\* with UnparsableSubmissionResult, constructs and returns no StarknetContract
\* and starts no status poll; when both lines are there with non-empty
\* captures the address and the hash are extracted and the poll starts.
C13_UnparsableDeployOutput ==
    \A o \in Ops :
        DeployExecuted(o) =>
            /\ (\/ ~HasLine(submission[o].stdout, AddressPrefix)
                \/ ~HasLine(submission[o].stdout, TxHashPrefix)) =>
                  /\ outcome[o] = "UnparsableSubmissionResult" /\ pc[o] = "done"
                  /\ value[o] = NoValue /\ contract[o] = NoContract
                  /\ polls[o] = 0 /\ state[o] = "None"
                  /\ QueriesOf(o) = 0 /\ TimersOf(o) = 0
            /\ (/\ HasCapture(submission[o].stdout, AddressPrefix)
                /\ HasCapture(submission[o].stdout, TxHashPrefix)) =>
                  /\ outcome[o] # "UnparsableSubmissionResult"
                  /\ contract[o] = StarknetContract(AddressOf(o))
                  /\ polls[o] >= 1 /\ state[o] # "None"

C13_Witness ==
    \E o, p \in Ops :
        /\ DeployExecuted(o) /\ submission[o].stdout = <<Line(AddressPrefix, AddressOf(o))>>
        /\ outcome[o] = "UnparsableSubmissionResult"
        /\ DeployExecuted(p) /\ Len(submission[p].stdout) = 4
        /\ state[p] = "Querying" /\ contract[p] = StarknetContract(AddressOf(p))

\* The error of a submission command that exits with a non-zero status.
SubmissionError(k) == IF k = "deploy" THEN "DeploymentRejected" ELSE "InvocationFailed"

\* C14: a failed submission is not retried. An operation runs at most one
\* submission command; when the command returns a non-zero status the
\* operation has failed with DeploymentRejected (deploy) or InvocationFailed
\* (invoke, call), with no status query issued and no poll scheduled; a
\* command is submitted only by the start of an operation, and a status
\* query is issued only as the first cycle of a submission that returned
\* zero or for a wait whose last status was classified as still pending.
C14_Failed ==
    \A o \in Ops :
        /\ submitted[o] <= 1
        /\ (submission[o].returned /\ submission[o].statusCode # 0) =>
              /\ pc[o] = "done" /\ outcome[o] = SubmissionError(kind[o])
              /\ value[o] = NoValue
              /\ polls[o] = 0 /\ state[o] = "None"
              /\ QueriesOf(o) = 0 /\ TimersOf(o) = 0

C14_Step ==
    \A o \in Ops :
        /\ submitted'[o] # submitted[o] => (pc[o] = "idle" /\ submitted[o] = 0)
        /\ QueriesOf(o)' > QueriesOf(o) =>
              \/ /\ pc[o] = "submitting" /\ polls[o] = 0
                 /\ submission'[o].returned /\ submission'[o].statusCode = 0
              \/ /\ state[o] = "Pending" /\ classify(statusObject[o]) = "setTimeout"
                 /\ TimersOf(o)' < TimersOf(o)

C14_NoRetryOfSubmission == [] C14_Failed /\ [][C14_Step]_vars

C14_Witness ==
    \E o, p \in Ops :
        /\ kind[o] = "deploy" /\ submission[o].returned /\ submission[o].statusCode = 1
        /\ outcome[o] = "DeploymentRejected" /\ submitted[o] = 1
        /\ kind[p] = "invoke" /\ submission[p].returned /\ submission[p].statusCode = 1
        /\ outcome[p] = "InvocationFailed" /\ submitted[p] = 1

C15_Validated(o) ==
    InvokeOrCallOf(o) =>
        LET error == invokeOrCallValidate(input[o].address, factory.abi,
                                          input[o].functionName, input[o].args)
        IN  /\ (submitted[o] = 1) <=> (error = "ok")
            /\ submitted[o] = 0 => outcome[o] = error

C15_ReadOnly ==
    \A o \in Ops :
        /\ C15_Validated(o)
        /\ kind[o] = "call" =>
              /\ submitted[o] <= 1
              /\ polls[o] = 0 /\ repolls[o] = 0 /\ state[o] = "None"
              /\ QueriesOf(o) = 0 /\ TimersOf(o) = 0
              /\ contract[o] = NoContract
              /\ (submission[o].returned /\ submission[o].statusCode = 0) =>
                    LET adaptedOutput ==
                            adaptOutput(submission[o].stdout,
                                        lookup(factory.abi, input[o].functionName).outputs,
                                        factory.abi)
                    IN  /\ pc[o] = "done"
                        /\ adaptedOutput.ok =>
                              /\ outcome[o] = "fulfilled"
                              /\ value[o].is = "StringMap"
                              /\ value[o].adaptedOutput = adaptedOutput.value
                        /\ ~adaptedOutput.ok => outcome[o] = "TruncatedOutput"

C15_ReturnStep ==
    \A o \in Ops :
        (kind[o] = "call" /\ ~submission[o].returned /\ submission'[o].returned) =>
            pc[o] = "submitting" /\ pc'[o] = "done" /\ queries' = queries /\ timers' = timers

C15_CallIsReadOnly == [] C15_ReadOnly /\ [][C15_ReturnStep]_vars

C15_Witness ==
    \E o, p \in Ops :
        /\ kind[o] = "call" /\ input[o].functionName = "get_balance"
        /\ submission[o] = Executed(0, <<ToDigits(10)>>)
        /\ outcome[o] = "fulfilled" /\ value[o].is = "StringMap"
        /\ value[o].adaptedOutput = [res |-> 10]
        /\ kind[p] = "invoke" /\ input[p].live /\ input[p].functionName = "get_balance"
        /\ submitted[p] = 1

\* The handles getContractAt has returned.
ReturnedByGetContractAt ==
    {value[p] : p \in {q \in Ops : kind[q] = "getContractAt" /\ outcome[q] = "fulfilled"}}

\* C16: getContractAt fails with EmptyAddress when the address is undefined
\* or empty and constructs no StarknetContract; otherwise it returns a
\* StarknetContract with the address it was given, having run no command and
\* no status query; invoke and call on a handle it returned do not fail with
\* ContractNotDeployed.
C16_GetContractAt ==
    \A o \in Ops :
        /\ kind[o] = "getContractAt" =>
              /\ pc[o] = "done" /\ submitted[o] = 0 /\ ~submission[o].returned
              /\ polls[o] = 0 /\ state[o] = "None" /\ QueriesOf(o) = 0 /\ TimersOf(o) = 0
              /\ input[o].address \in {Undefined, EmptyString} =>
                    /\ outcome[o] = "EmptyAddress"
                    /\ value[o] = NoValue /\ contract[o] = NoContract
              /\ input[o].address \notin {Undefined, EmptyString} =>
                    /\ outcome[o] = "fulfilled"
                    /\ value[o].is = "StarknetContract"
                    /\ value[o].address = input[o].address
        /\ (InvokeOrCallOf(o) /\ \E h \in ReturnedByGetContractAt : h.address = input[o].address)
              => outcome[o] # "ContractNotDeployed"

C16_Witness ==
    \E o, p \in Ops :
        /\ kind[o] = "getContractAt" /\ input[o].address = SuppliedAddress
        /\ value[o] = StarknetContract(SuppliedAddress)
        /\ kind[p] = "call" /\ input[p].address = SuppliedAddress /\ outcome[p] = "fulfilled"

\* The last poll cycle of o classified an accepted or a rejected status.
TerminalCycle(o) ==
    Classified(o) /\ (AcceptedStatus(statusObject[o]) \/ RejectedStatus(statusObject[o]))

\* C18: a wait settles at most once and polling stops at a terminal status.
\* A callback is called only by a cycle of a wait that is unsettled and
\* Querying, and makes the wait Accepted or Rejected; from then on the
\* outcome, the value and the poller's state never change, so resolve and
\* reject are called once in total, and no status query is in flight or
\* issued and no poll is pending or scheduled for that transaction.
C18_Stopped ==
    \A o \in Ops :
        TerminalCycle(o) =>
            /\ state[o] \in {"Accepted", "Rejected"}
            /\ outcome[o] \in {"fulfilled", "TransactionRejected"}
            /\ (outcome[o] = "fulfilled") <=> (state[o] = "Accepted")
            /\ QueriesOf(o) = 0 /\ TimersOf(o) = 0

C18_Step ==
    \A o \in Ops :
        /\ outcome[o] # "pending" => (outcome'[o] = outcome[o] /\ value'[o] = value[o])
        /\ (state[o] \notin {"Accepted", "Rejected"} /\ state'[o] \in {"Accepted", "Rejected"})
              => /\ state[o] = "Querying" /\ outcome[o] = "pending"
                 /\ QueriesOf(o) = 1 /\ QueriesOf(o)' = 0
        /\ TerminalCycle(o) =>
              /\ state'[o] = state[o] /\ statusObject'[o] = statusObject[o]
              /\ polls'[o] = polls[o] /\ repolls'[o] = repolls[o]
              /\ QueriesOf(o)' = 0 /\ TimersOf(o)' = 0

C18_SettlesOnce == [] C18_Stopped /\ [][C18_Step]_vars

C18_Witness ==
    \E o, p \in Ops :
        /\ kind[o] = "invoke" /\ state[o] = "Accepted" /\ repolls[o] = 1
        /\ kind[p] = "deploy" /\ state[p] = "Rejected" /\ repolls[p] = 1
        /\ final[TxHashOf(o)] /\ final[TxHashOf(p)]

\* C19: the address of a StarknetContract is write-once. A handle is
\* constructed, and its address assigned, only by a step of the deploy or the
\* getContractAt that returns it, before it is returned; no later step of
\* any operation or poller (invoke, call and status polling included)
\* changes a constructed handle; every handle returned is the one that was
\* constructed and has a non-empty address.
C19_Returned ==
    \A o \in Ops :
        /\ contract[o] # NoContract =>
              /\ kind[o] \in {"deploy", "getContractAt"}
              /\ contract[o].is = "StarknetContract"
              /\ contract[o].address \notin {Undefined, EmptyString}
        /\ (kind[o] \in {"deploy", "getContractAt"} /\ outcome[o] = "fulfilled") =>
              /\ value[o].is = "StarknetContract"
              /\ value[o] = contract[o]
              /\ value[o].address \notin {Undefined, EmptyString}

C19_Step ==
    \A o \in Ops :
        /\ contract[o] # NoContract => contract'[o] = contract[o]
        /\ (contract[o] = NoContract /\ contract'[o] # NoContract) =>
              /\ kind'[o] \in {"deploy", "getContractAt"}
              /\ outcome[o] = "pending" /\ value[o] = NoValue
        /\ (value[o].is = "StarknetContract") => value'[o] = value[o]

C19_AddressWriteOnce == [] C19_Returned /\ [][C19_Step]_vars

C19_Witness ==
    \E o, p \in Ops :
        /\ kind[o] = "deploy" /\ outcome[o] = "fulfilled"
        /\ contract[o].address = AddressOf(o) /\ value[o].address = AddressOf(o)
        /\ kind[p] = "call" /\ input[p].address = AddressOf(o) /\ outcome[p] = "fulfilled"

\* C20: loading the ABI index succeeds exactly when every entry of the ABI
\* array has a non-empty name, and fails with MalformedAbi, with no factory
\* and no handle constructed and so no operation run, when an entry has
\* none; after a successful load every key of the index is a non-empty name
\* mapped to an entry of the array that carries that name, every entry's
\* name is a key, and no step of deploy, getContractAt, invoke, call or the
\* poller changes the index.
C20_Loaded ==
    LET abiArray == factory.abiPath
    IN  /\ (factory.error = "none") <=> (\A i \in 1..Len(abiArray) : abiArray[i].name # "")
        /\ factory.error # "none" =>
              /\ factory.error = "MalformedAbi"
              /\ factory.abi = <<>> /\ factory.constructorAbi = NoEntry
              /\ \A o \in Ops : /\ pc[o] = "idle" /\ kind[o] = "none"
                                /\ contract[o] = NoContract /\ value[o] = NoValue
        /\ factory.error = "none" =>
              /\ \A n \in DOMAIN factory.abi :
                    /\ n # ""
                    /\ factory.abi[n].name = n
                    /\ \E i \in 1..Len(abiArray) : abiArray[i] = factory.abi[n]
              /\ \A i \in 1..Len(abiArray) : abiArray[i].name \in DOMAIN factory.abi

C20_IndexReadOnly == [] C20_Loaded /\ [][factory' = factory]_vars

C20_Witness ==
    /\ factory.error = "none" /\ factory.abiPath = AbiConstructor
    /\ DOMAIN factory.abi = {"constructor", "increase_balance", "get_balance"}
    /\ \E o, p \in Ops :
          /\ kind[o] = "deploy" /\ outcome[o] = "fulfilled"
          /\ kind[p] = "invoke" /\ state[p] = "Pending"

====
